---- MODULE Spec2Model ----
(***************************************************************************)
(* Model of mcp-meeting-assistant: the ChatSession turn loop               *)
(* (chat_session.py), the Gemini adapter (models/gemini.py), the MCPClient *)
(* connection life cycle (mcp_client.py) and the meeting tool server       *)
(* (mcp_server.py).                                                        *)
(*                                                                         *)
(* Text is a sequence of one-character strings, so that lower(), strip(),  *)
(* split() and join() are computed the way Python computes them.           *)
(***************************************************************************)
EXTENDS Integers, Sequences, FiniteSets, TLC

VARIABLES
    session,        \* MCPClient._session: "None", "entered" or "initialized"
    exit_stack,     \* MCPClient._exit_stack: contexts entered, oldest first
    lifecycle,      \* Unconnected / Connected / Closed, by completed calls
    sent,           \* requests written to the tool server by the client API
    client_result,  \* how the last MCPClient call ended
    connects,       \* number of connect() calls made
    pc,             \* position of ChatSession.run
    history,        \* ChatSession.history (committed history)
    messages,       \* messages_for_this_turn (working history)
    user_input,     \* the line read by input("> ")
    prompt_name,    \* parts[0] of a slash command
    follow_up,      \* user_follow_up_text
    prompt_content, \* text run_prompt returned for the slash command, <<>> for None
    available_tools,\* result of get_tools for this turn
    backend,        \* what model.generate_content did in the last chat call
    response,       \* result of the first chat call of the turn
    tool_results,   \* result of execute_tool_requests
    final_response, \* final_response_obj, result of the second chat call
    final_text,     \* text chosen for display
    display,        \* what the turn printed as its answer
    outcome,        \* how the last turn ended
    calls,          \* remote calls made since the last input, in order
    turns,          \* number of input lines read
    meetings,       \* mcp_server.meetings, the tool server's store
    meetings_before, \* mcp_server.meetings when the running turn read its line
    schema,         \* a JSON schema value given to clean_schema
    cleaned,        \* the results of clean_schema applied once, twice, ...
    messages_history, \* the list a caller passes to Gemini.ask
    asked,          \* the last ask call: question, chat result, returned text
    asks,           \* number of ask calls made
    served          \* the last tool invocation the server ran, and their number

clientVars == <<session, exit_stack, lifecycle, sent, client_result, connects>>

chatVars == <<pc, history, messages, user_input, prompt_name, follow_up,
              prompt_content,
              available_tools, backend, response, tool_results, final_response,
              final_text, display, outcome, calls, turns, meetings,
              meetings_before>>

adapterVars == <<schema, cleaned, messages_history, asked, asks, served>>

vars == <<session, exit_stack, lifecycle, sent, client_result, connects,
          pc, history, messages, user_input, prompt_name, follow_up,
          prompt_content,
          available_tools, backend, response, tool_results, final_response,
          final_text, display, outcome, calls, turns, meetings,
          meetings_before,
          schema, cleaned, messages_history, asked, asks, served>>

---------------------------------------------------------------------------
(* Bounds *)

\* input lines read by one run of the session loop
MaxTurns == 2

\* connect() calls made on one MCPClient
MaxConnects == 2

\* requests the client API harness sends to the tool server
MaxSent == 3

\* parts of a response given to execute_tool_requests on its own
MaxParts == 3

\* nesting depth of the JSON values given to clean_schema
MaxDepth == 3

\* applications of clean_schema to one value, each to the result of the last
MaxCleans == 2

\* ask() calls made on one message list
MaxAsks == 3

\* tool invocations the server runs on one store
MaxInvocations == 5

---------------------------------------------------------------------------
(* Python str operations used by ChatSession.run *)

Whitespace == {" ", "\n"}

LowerChar(c) ==
    CASE c = "E" -> "e"
      [] c = "X" -> "x"
      [] c = "I" -> "i"
      [] c = "T" -> "t"
      [] OTHER -> c

\* a comparison that keeps the case of the line
Lower_KeepsCase(s) == s

\* str.lower()
Lower(s) == [i \in DOMAIN s |-> LowerChar(s[i])]

\* str.startswith(p)
StartsWith(s, p) == Len(s) >= Len(p) /\ SubSeq(s, 1, Len(p)) = p

RECURSIVE LStrip(_)
LStrip(s) ==
    IF s = <<>> THEN s
    ELSE IF Head(s) \in Whitespace THEN LStrip(Tail(s)) ELSE s

RECURSIVE RStrip(_)
RStrip(s) ==
    IF s = <<>> THEN s
    ELSE IF s[Len(s)] \in Whitespace THEN RStrip(SubSeq(s, 1, Len(s) - 1)) ELSE s

\* str.strip()
Strip(s) == RStrip(LStrip(s))

RECURSIVE SplitFrom(_, _)
SplitFrom(s, word) ==
    IF s = <<>> THEN (IF word = <<>> THEN <<>> ELSE <<word>>)
    ELSE IF Head(s) \in Whitespace
         THEN (IF word = <<>> THEN <<>> ELSE <<word>>) \o SplitFrom(Tail(s), <<>>)
         ELSE SplitFrom(Tail(s), Append(word, Head(s)))

\* str.split() with no separator: the words between runs of whitespace
Split(s) == SplitFrom(s, <<>>)

RECURSIVE Join(_, _)
\* sep.join(words)
Join(sep, words) ==
    IF words = <<>> THEN <<>>
    ELSE IF Len(words) = 1 THEN Head(words)
    ELSE Head(words) \o sep \o Join(sep, Tail(words))

---------------------------------------------------------------------------
(* mcp_server.py: the meeting store and its tools.  A tool's returned text *)
(* is the tuple of its fixed wording and the values formatted into it.     *)

NewMeeting == [attendees |-> <<>>, action_items |-> <<>>]

\* schedule_meeting() that stores a new empty meeting whatever the store holds
schedule_meeting_Overwrites(m, topic) ==
    [store |-> [t \in DOMAIN m \cup {topic} |->
                   IF t = topic THEN NewMeeting ELSE m[t]],
     text |-> <<"Successfully scheduled new meeting", topic>>]

schedule_meeting(m, topic) ==
    IF topic \in DOMAIN m
    THEN [store |-> m, text |-> <<"Error:", "already exists", topic>>]
    ELSE [store |-> [t \in DOMAIN m \cup {topic} |->
                        IF t = topic THEN NewMeeting ELSE m[t]],
          text |-> <<"Successfully scheduled new meeting", topic>>]

\* add_attendee() that stores the name as the only attendee
add_attendee_Replaces(m, topic, name) ==
    IF topic \notin DOMAIN m
    THEN [store |-> m, text |-> <<"Error:", "not found", topic>>]
    ELSE [store |-> [m EXCEPT ![topic].attendees = <<name>>],
          text |-> <<"Successfully added attendee", name, topic>>]

add_attendee(m, topic, name) ==
    IF topic \notin DOMAIN m
    THEN [store |-> m, text |-> <<"Error:", "not found", topic>>]
    ELSE [store |-> [m EXCEPT ![topic].attendees = Append(@, name)],
          text |-> <<"Successfully added attendee", name, topic>>]

add_action_item(m, topic, item) ==
    IF topic \notin DOMAIN m
    THEN [store |-> m, text |-> <<"Error:", "not found", topic>>]
    ELSE [store |-> [m EXCEPT ![topic].action_items = Append(@, item)],
          text |-> <<"Successfully added action item", topic, item>>]

get_meeting_details(m, topic) ==
    IF topic \notin DOMAIN m
    THEN [store |-> m, text |-> <<"Error:", "not found", topic>>]
    ELSE [store |-> m,
          text |-> <<"Details for meeting", topic, "Attendees:">>
                   \o (IF m[topic].attendees = <<>> THEN <<"None">>
                       ELSE m[topic].attendees)
                   \o <<"Action Items:">>
                   \o (IF m[topic].action_items = <<>> THEN <<"No action items.">>
                       ELSE m[topic].action_items)]

\* list_all_meetings(): the topics of the store (here as a set, the store
\* being keyed by topic), or the fixed text when there is none
list_all_meetings(m) ==
    IF DOMAIN m = {}
    THEN [store |-> m, text |-> <<"There are no meetings scheduled at the moment.">>]
    ELSE [store |-> m, text |-> <<DOMAIN m>>]

\* the tool the server runs for a function call part
RunTool(m, call) ==
    CASE call.name = "schedule_meeting"    -> schedule_meeting(m, call.args[1])
      [] call.name = "add_attendee"        -> add_attendee(m, call.args[1], call.args[2])
      [] call.name = "add_action_item"     -> add_action_item(m, call.args[1], call.args[2])
      [] call.name = "get_meeting_details" -> get_meeting_details(m, call.args[1])
      [] call.name = "list_all_meetings"   -> list_all_meetings(m)

\* no invocation yet
NotServed == [n |-> 0, name |-> "", args |-> <<>>, text |-> <<>>]

\* the invocations a client may send
Invocations ==
    [name : {"schedule_meeting", "get_meeting_details"},
     args : {<<"Q3">>, <<"Q4">>}]
      \cup [name : {"add_attendee"},
            args : {<<"Q3", "Alice">>, <<"Q3", "Bob">>, <<"Q4", "Alice">>}]
      \cup [name : {"add_action_item"},
            args : {<<"Q3", "budget">>, <<"Q4", "budget">>}]
      \cup [name : {"list_all_meetings"}, args : {<<>>}]

\* the server runs one tool on the store and returns its text
Invoke ==
    /\ pc = "serving"
    /\ served.n < MaxInvocations
    /\ \E call \in Invocations :
          LET done == RunTool(meetings, call)
          IN /\ meetings' = done.store
             /\ served' = [n |-> served.n + 1, name |-> call.name,
                           args |-> call.args, text |-> done.text]
    /\ UNCHANGED <<schema, cleaned, messages_history, asked, asks>>
    /\ UNCHANGED <<pc, history, messages, user_input, prompt_name, follow_up,
                   prompt_content, available_tools, backend, response,
                   tool_results, final_response, final_text, display, outcome,
                   calls, turns, meetings_before>>
    /\ UNCHANGED clientVars

---------------------------------------------------------------------------
(* mcp_client.py: MCPClient *)

NoSession == "None"

\* what the transport does with a request that is sent
Net == {"ok", "TransportError"}

\* session(): ConnectionError when _session is None, else the request goes out
list_tools(s, net) == IF s = NoSession THEN "ConnectionError" ELSE net

call_tool(s, net) == IF s = NoSession THEN "ConnectionError" ELSE net

\* `if not self._session: raise ConnectionError` before the request
list_prompts(s, net) == IF s = NoSession THEN "ConnectionError" ELSE net

\* got: "text" (first message's text), "absent" (no messages) or "TransportError"
run_prompt(s, got) == IF s = NoSession THEN "ConnectionError" ELSE got

PromptNet == {"text", "absent", "TransportError"}

\* a client call sends a request exactly when it gets past the session check
Sends(result) == result # "ConnectionError"

ConnectSteps == {"spawn_fails", "session_fails", "handshake_fails", "ok"}

\* connect(): enter stdio_client, enter ClientSession and bind it to _session,
\* then initialize(); a failing step raises out of connect
connect(how) ==
    /\ exit_stack' =
          CASE how = "spawn_fails"   -> exit_stack
            [] how = "session_fails" -> Append(exit_stack, "stdio_client")
            [] OTHER -> exit_stack \o <<"stdio_client", "ClientSession">>
    /\ session' =
          CASE how = "handshake_fails" -> "entered"
            [] how = "ok"              -> "initialized"
            [] OTHER                   -> session
    /\ client_result' = [op |-> "connect",
                          result |-> IF how = "ok" THEN "ok" ELSE "raised"]
    /\ lifecycle' = IF how = "ok" THEN "Connected" ELSE lifecycle
    /\ connects' = connects + 1

\* a call of connect() on the client
Connect ==
    /\ connects < MaxConnects
    /\ \E how \in ConnectSteps : connect(how)
    /\ UNCHANGED sent
    /\ UNCHANGED chatVars
    /\ UNCHANGED adapterVars

\* cleanup() that closes the exit stack and keeps _session
cleanup_KeepsSession ==
    /\ exit_stack' = <<>>
    /\ session' = session
    /\ lifecycle' = "Closed"
    /\ client_result' = [op |-> "cleanup", result |-> "ok", released |-> exit_stack]

\* cleanup(): close every context on the exit stack, then _session = None;
\* `released` records the contexts the call closed
cleanup ==
    /\ exit_stack' = <<>>
    /\ session' = NoSession
    /\ lifecycle' = "Closed"
    /\ client_result' = [op |-> "cleanup", result |-> "ok", released |-> exit_stack]

\* a call of cleanup() on the client
Cleanup ==
    /\ cleanup
    /\ UNCHANGED <<sent, connects>>
    /\ UNCHANGED chatVars
    /\ UNCHANGED adapterVars

\* one call `op` of the client API with the result r
ClientCall(op, r) ==
    /\ sent < MaxSent
    /\ client_result' = [op |-> op, result |-> r]
    /\ sent' = IF Sends(r) THEN sent + 1 ELSE sent
    /\ UNCHANGED <<session, exit_stack, lifecycle, connects>>
    /\ UNCHANGED chatVars
    /\ UNCHANGED adapterVars

ListTools == \E net \in Net : ClientCall("list_tools", list_tools(session, net))

CallTool == \E net \in Net : ClientCall("call_tool", call_tool(session, net))

ListPrompts == \E net \in Net : ClientCall("list_prompts", list_prompts(session, net))

RunPrompt == \E got \in PromptNet : ClientCall("run_prompt", run_prompt(session, got))

---------------------------------------------------------------------------
(* Messages, parts and model responses *)

TextPart(t) == [kind |-> "text", text |-> t, name |-> "", args |-> <<>>]

CallPart(n, a) == [kind |-> "function_call", text |-> <<>>, name |-> n, args |-> a]

\* a part that carries neither text nor a function call
EmptyPart == [kind |-> "none", text |-> <<>>, name |-> "", args |-> <<>>]

UserMessage(t) == [role |-> "user", parts |-> <<TextPart(t)>>]

ToolMessage(results) == [role |-> "tool", parts |-> results]

\* None, the absent response
None == [absent |-> TRUE, candidates |-> <<>>]

NoCandidates == [absent |-> FALSE, candidates |-> <<>>]

Candidate(ps) ==
    [absent |-> FALSE, candidates |-> <<[content |-> [role |-> "model", parts |-> ps]]>>]

ScheduleQ3 == CallPart("schedule_meeting", <<"Q3">>)

AddAlice == CallPart("add_attendee", <<"Q3", "Alice">>)

\* the responses generate_content may return
ModelResponses ==
    { NoCandidates,
      Candidate(<<>>),
      Candidate(<<TextPart(<<"o", "k">>)>>),
      Candidate(<<EmptyPart>>),
      Candidate(<<ScheduleQ3, AddAlice>>) }

\* what one call of model.generate_content does
Backend ==
    [kind : {"response"}, value : ModelResponses]
      \cup [kind : {"InternalServerError", "Exception"}, value : {None}]

\* the lines the user may type
Inputs ==
    { <<"h", "i">>,
      <<"E", "x", "i", "t">>,
      <<"/">>,
      <<"/", "k", " ", "P">> }

\* the text of the first message of a resolved prompt template
TemplateText == <<"\n", "T", "\n">>

\* the tools the server lists
ToolCatalog == <<"schedule_meeting", "add_attendee">>

---------------------------------------------------------------------------
(* models/gemini.py: Gemini *)

\* chat() with the second handler missing: another Exception reaches the caller
chat_PropagatesOther(b) ==
    IF b.kind = "response"
    THEN [raised |-> FALSE, value |-> b.value]
    ELSE IF b.kind = "InternalServerError"
    THEN [raised |-> FALSE, value |-> None]
    ELSE [raised |-> TRUE, value |-> None]

\* chat(): the response, or None after InternalServerError and after any
\* other Exception; nothing is raised to the caller
chat(b) ==
    IF b.kind = "response"
    THEN [raised |-> FALSE, value |-> b.value]
    ELSE [raised |-> FALSE, value |-> None]

\* add_message_to_history() inserting at the front of the list
add_message_to_history_Front(msgs, message) == <<message>> \o msgs

\* add_message_to_history(): messages.append(message)
add_message_to_history(msgs, message) == Append(msgs, message)

\* the test passing only for a response all of whose parts are text
HasParts_TextOnly(r) ==
    /\ ~r.absent
    /\ r.candidates # <<>>
    /\ r.candidates[1].content.parts # <<>>
    /\ \A i \in DOMAIN r.candidates[1].content.parts :
          r.candidates[1].content.parts[i].kind = "text"

\* `response and response.candidates and response.candidates[0].content.parts`
HasParts(r) ==
    /\ ~r.absent
    /\ r.candidates # <<>>
    /\ r.candidates[1].content.parts # <<>>

\* text_from_message(): response.text, "" when it raises ValueError (no
\* candidate, no parts, or a part that is not text)
text_from_message(r) ==
    IF r.absent THEN <<>>
    ELSE IF ~HasParts(r) THEN <<>>
    ELSE LET ps == r.candidates[1].content.parts
         IN IF \E i \in DOMAIN ps : ps[i].kind # "text" THEN <<>>
            ELSE Join(<<>>, [i \in DOMAIN ps |-> ps[i].text])

\* the function_response part appended for one call
FunctionResponse(tool_name, output_content) ==
    [kind |-> "function_response", name |-> tool_name,
     response |-> [content |-> output_content]]

\* function_calls holding the first requested call only
FunctionCalls_FirstOnly(r) ==
    IF r.absent \/ r.candidates = <<>> THEN <<>>
    ELSE LET fcalls == SelectSeq(r.candidates[1].content.parts,
                                 LAMBDA p : p.kind = "function_call")
         IN IF fcalls = <<>> THEN <<>> ELSE <<fcalls[1]>>

\* function_calls: the parts with a function_call, in order
FunctionCalls(r) ==
    IF HasParts(r)
    THEN SelectSeq(r.candidates[1].content.parts,
                   LAMBDA p : p.kind = "function_call")
    ELSE <<>>

\* the handler of a failed call formatting only the exception
ExecuteOne_ErrorWithoutName(s, call, net, m) ==
    LET r == call_tool(s, net)
    IN IF r = "ok"
       THEN LET done == RunTool(m, call)
            IN [part |-> FunctionResponse(call.name,
                             [json |-> "list", items |-> done.text]),
                store |-> done.store, sent |-> 1]
       ELSE [part |-> FunctionResponse(call.name,
                         [json |-> "error", items |-> <<"Error executing tool", r>>]),
             store |-> m, sent |-> IF Sends(r) THEN 1 ELSE 0]

\* one iteration of the loop over function_calls: call_tool, then the json
\* of the texts, or the json of the error when call_tool raises
ExecuteOne(s, call, net, m) ==
    LET r == call_tool(s, net)
    IN IF r = "ok"
       THEN LET done == RunTool(m, call)
            IN [part |-> FunctionResponse(call.name,
                             [json |-> "list", items |-> done.text]),
                store |-> done.store, sent |-> 1]
       ELSE [part |-> FunctionResponse(call.name,
                         [json |-> "error",
                          items |-> <<"Error executing tool", call.name, r>>]),
             store |-> m, sent |-> IF Sends(r) THEN 1 ELSE 0]

RECURSIVE ExecuteAll(_, _, _, _)
\* the loop over function_calls; sent counts the requests that went out
ExecuteAll(s, fcalls, nets, m) ==
    IF fcalls = <<>> THEN [parts |-> <<>>, store |-> m, sent |-> 0]
    ELSE LET one == ExecuteOne(s, Head(fcalls), Head(nets), m)
             rest == ExecuteAll(s, Tail(fcalls), Tail(nets), one.store)
         IN [parts |-> <<one.part>> \o rest.parts, store |-> rest.store,
             sent |-> one.sent + rest.sent]

\* the calls before the first one whose call_tool does not return
UntilFailure(s, fcalls, nets) ==
    LET failing == {i \in DOMAIN fcalls : call_tool(s, nets[i]) # "ok"}
    IN IF failing = {} THEN fcalls
       ELSE SubSeq(fcalls, 1, (CHOOSE i \in failing : \A j \in failing : i <= j) - 1)

\* execute_tool_requests() without the try: the first failure ends the batch
execute_tool_requests_StopsAtFailure(s, r, nets, m) ==
    ExecuteAll(s, UntilFailure(s, FunctionCalls(r), nets), nets, m)

\* execute_tool_requests(): nets[i] is what the transport does with call i
execute_tool_requests(s, r, nets, m) == ExecuteAll(s, FunctionCalls(r), nets, m)

(* clean_schema: a JSON value is a record [tag, val]: a dict holds its     *)
(* <<key, value>> pairs in insertion order, a list its items, a string its *)
(* characters.                                                             *)

Str(s) == [tag |-> "str", val |-> s]

\* a scalar that is not a string (a number, a boolean, null)
Number == [tag |-> "scalar", val |-> <<>>]

Dict(pairs) == [tag |-> "dict", val |-> pairs]

List(items) == [tag |-> "list", val |-> items]

UpperChar(c) ==
    CASE c = "s" -> "S"
      [] c = "t" -> "T"
      [] OTHER -> c

\* str.upper()
Upper(s) == [i \in DOMAIN s |-> UpperChar(s[i])]

RECURSIVE clean_schema_SkipsLists(_)
\* clean_schema() that returns a list as it is
clean_schema_SkipsLists(sch) ==
    IF sch.tag = "dict"
    THEN LET kept == SelectSeq(sch.val, LAMBDA kv : kv[1] # "title")
         IN Dict([i \in DOMAIN kept |->
                    <<kept[i][1],
                      IF kept[i][1] = "type" /\ kept[i][2].tag = "str"
                      THEN Str(Upper(kept[i][2].val))
                      ELSE clean_schema_SkipsLists(kept[i][2])>>])
    ELSE sch

RECURSIVE clean_schema(_)
\* clean_schema(): a dict loses its "title" key, a string under "type" is
\* upper-cased, every other value of a dict and every item of a list is
\* cleaned, anything else is returned as it is
clean_schema(sch) ==
    IF sch.tag = "dict"
    THEN LET kept == SelectSeq(sch.val, LAMBDA kv : kv[1] # "title")
         IN Dict([i \in DOMAIN kept |->
                    <<kept[i][1],
                      IF kept[i][1] = "type" /\ kept[i][2].tag = "str"
                      THEN Str(Upper(kept[i][2].val))
                      ELSE clean_schema(kept[i][2])>>])
    ELSE IF sch.tag = "list"
    THEN List([i \in DOMAIN sch.val |-> clean_schema(sch.val[i])])
    ELSE sch

\* a call clean_schema(value): first of the schema, then of the last result
CleanSchema ==
    /\ pc = "clean_schema"
    /\ Len(cleaned) < MaxCleans
    /\ cleaned' = Append(cleaned,
                     clean_schema(IF cleaned = <<>> THEN schema
                                  ELSE cleaned[Len(cleaned)]))
    /\ UNCHANGED <<schema, messages_history, asked, asks, served>>
    /\ UNCHANGED chatVars
    /\ UNCHANGED clientVars

\* list.pop(): the list without its last element
Pop(msgs) == SubSeq(msgs, 1, Len(msgs) - 1)

\* {"role": "model", "parts": [{"text": text}]}
ModelMessage(t) == [role |-> "model", parts |-> <<TextPart(t)>>]

\* ask() that leaves the question in the list when chat returns None
ask_KeepsQuestion(question, msgs, b) ==
    LET asking == add_message_to_history(msgs, UserMessage(question))
        c == chat(b)
        text == text_from_message(c.value)
    IN IF c.raised
       THEN [raised |-> TRUE, history |-> asking, reply |-> None, text |-> <<>>]
       ELSE IF c.value = None
       THEN [raised |-> FALSE, history |-> asking, reply |-> None, text |-> <<>>]
       ELSE IF text # <<>>
       THEN [raised |-> FALSE, reply |-> c.value, text |-> text,
             history |-> add_message_to_history(asking, ModelMessage(text))]
       ELSE [raised |-> FALSE, history |-> Pop(asking), reply |-> c.value,
             text |-> text]

\* ask(): append the question, chat; on None pop the question and return "";
\* with text append the model message, without text pop the question
ask(question, msgs, b) ==
    LET asking == add_message_to_history(msgs, UserMessage(question))
        c == chat(b)
        text == text_from_message(c.value)
    IN IF c.raised
       THEN [raised |-> TRUE, history |-> asking, reply |-> None, text |-> <<>>]
       ELSE IF c.value = None
       THEN [raised |-> FALSE, history |-> Pop(asking), reply |-> None,
             text |-> <<>>]
       ELSE IF text # <<>>
       THEN [raised |-> FALSE, reply |-> c.value, text |-> text,
             history |-> add_message_to_history(asking, ModelMessage(text))]
       ELSE [raised |-> FALSE, history |-> Pop(asking), reply |-> c.value,
             text |-> text]

\* the questions a caller asks
Questions == {<<"q">>, <<"w", "?">>}

\* a call model.ask(question, messages_history) answered by b
AskWith(question, b) ==
    /\ pc = "ask"
    /\ asks < MaxAsks
    /\ asks' = asks + 1
    /\ LET r == ask(question, messages_history, b)
       IN /\ messages_history' = r.history
          /\ asked' = [question |-> question, reply |-> r.reply,
                       text |-> r.text, raised |-> r.raised]
    /\ UNCHANGED <<schema, cleaned, served>>
    /\ UNCHANGED chatVars
    /\ UNCHANGED clientVars

---------------------------------------------------------------------------
(* chat_session.py: ChatSession *)

\* _add_valid_model_response() without the check of the parts
add_valid_model_response_AnyCandidate(r, msgs) ==
    IF ~r.absent /\ r.candidates # <<>>
    THEN add_message_to_history(msgs, r.candidates[1].content)
    ELSE msgs

\* _add_valid_model_response()
add_valid_model_response(r, msgs) ==
    IF HasParts(r)
    THEN add_message_to_history(msgs, r.candidates[1].content)
    ELSE msgs

\* the template and the follow-up text joined without .strip()
FullUserMessage_Untrimmed(template, follow) ==
    template \o <<"\n", "\n">> \o follow

\* f"{prompt_content}\n\n{user_follow_up_text}".strip()
FullUserMessage(template, follow) ==
    Strip(template \o <<"\n", "\n">> \o follow)

\* one tool message per result instead of one per batch
AppendToolResults_PerCall(msgs, results) ==
    msgs \o [i \in DOMAIN results |-> ToolMessage(<<results[i]>>)]

\* lines 92-95: the results of one batch go into one tool message
AppendToolResults(msgs, results) ==
    add_message_to_history(msgs, ToolMessage(results))

\* the remote call `what` is logged when the client sent it
Logged(log, what, result) == IF Sends(result) THEN Append(log, what) ELSE log

\* lines 40-45: the tip; a failure of list_prompts is caught and printed
ShowTip ==
    /\ pc = "start"
    /\ \E net \in Net :
          calls' = Logged(calls, "list_prompts", list_prompts(session, net))
    /\ pc' = "AwaitInput"
    /\ UNCHANGED <<history, messages, user_input, prompt_name, follow_up,
                   prompt_content,
                   available_tools, backend, response, tool_results,
                   final_response, final_text, display, outcome, turns, meetings,
                   meetings_before>>
    /\ UNCHANGED clientVars
    /\ UNCHANGED adapterVars

\* `continue` after a turn that appended to self.history itself
Continue_KeepsDraft == pc' = "AwaitInput" /\ outcome' = "abandoned" /\ history' = messages

\* `continue`: the turn is abandoned, self.history is not assigned, and the
\* loop reads the next line
Continue == pc' = "AwaitInput" /\ outcome' = "abandoned" /\ history' = history

\* an exception that no handler of run() catches leaves the loop
Uncaught(exc) == pc' = "crashed" /\ outcome' = exc /\ history' = history

\* the turn goes on to the step `next`
Goto(next) == pc' = next /\ outcome' = "running" /\ history' = history

\* a call of _add_valid_model_response(response, messages_for_this_turn)
AddValidModelResponse ==
    /\ pc = "Validate"
    /\ messages' = add_valid_model_response(response, messages)
    /\ pc' = "Validated"
    /\ UNCHANGED <<history, user_input, prompt_name, follow_up, prompt_content,
                   available_tools, backend, response, tool_results,
                   final_response, final_text, display, outcome, calls, turns,
                   meetings,
                   meetings_before>>
    /\ UNCHANGED clientVars
    /\ UNCHANGED adapterVars

\* lines 48-60 and 72-76: the line read; leave on "exit", copy the history,
\* split a slash command or append the plain message
ReadLine(line) ==
    /\ pc = "AwaitInput"
    /\ turns < MaxTurns
    /\ turns' = turns + 1
    /\ calls' = <<>>
    /\ backend' = "none"
    /\ response' = None /\ final_response' = None
    /\ tool_results' = <<>> /\ final_text' = <<>> /\ display' = "none"
    /\ available_tools' = <<>>
    /\ prompt_content' = <<>>
    /\ user_input' = line
    /\ IF Lower(line) = <<"e", "x", "i", "t">>
       THEN /\ pc' = "done" /\ outcome' = "exit" /\ history' = history
            /\ messages' = <<>>
            /\ prompt_name' = <<>> /\ follow_up' = <<>>
       ELSE IF StartsWith(line, <<"/">>)
       THEN LET parts == Split(Strip(Tail(line)))
            IN IF parts = <<>>
               THEN /\ Uncaught("IndexError")
                    /\ messages' = history
                    /\ prompt_name' = <<>> /\ follow_up' = <<>>
               ELSE /\ Goto("RunPrompt")
                    /\ messages' = history
                    /\ prompt_name' = parts[1]
                    /\ follow_up' = Join(<<" ">>, Tail(parts))
       ELSE /\ Goto("GetTools")
            /\ messages' = add_message_to_history(history, UserMessage(line))
            /\ prompt_name' = <<>> /\ follow_up' = <<>>
    /\ meetings_before' = meetings
    /\ UNCHANGED meetings
    /\ UNCHANGED clientVars
    /\ UNCHANGED adapterVars

\* input("> ") in a session of several turns
ReadInput == \E line \in Inputs : ReadLine(line)

\* lines 61-71: resolve the template; an exception abandons the turn, an
\* absent or empty template appends nothing
ResolvePrompt ==
    /\ pc = "RunPrompt"
    /\ \E got \in PromptNet :
          LET r == run_prompt(session, got)
          IN /\ calls' = Logged(calls, "get_prompt", r)
             /\ IF r = "text"
                THEN /\ prompt_content' = TemplateText
                     /\ messages' = add_message_to_history(messages,
                            UserMessage(FullUserMessage(TemplateText, follow_up)))
                     /\ Goto("GetTools")
                ELSE IF r = "absent"
                THEN /\ Goto("GetTools") /\ UNCHANGED <<messages, prompt_content>>
                ELSE /\ Continue /\ UNCHANGED <<messages, prompt_content>>
    /\ UNCHANGED <<user_input, prompt_name, follow_up, available_tools,
                   backend, response, tool_results, final_response, final_text,
                   display, turns, meetings,
                   meetings_before>>
    /\ UNCHANGED clientVars
    /\ UNCHANGED adapterVars

\* line 80: get_tools() outside any try
GetTools ==
    /\ pc = "GetTools"
    /\ \E net \in Net :
          LET r == list_tools(session, net)
          IN /\ calls' = Logged(calls, "list_tools", r)
             /\ IF r = "ok"
                THEN /\ available_tools' = ToolCatalog
                     /\ Goto("Chat1")
                ELSE /\ Uncaught(r) /\ UNCHANGED available_tools
    /\ UNCHANGED <<messages, user_input, prompt_name, follow_up,
                   prompt_content,
                   backend, response, tool_results, final_response, final_text,
                   display, turns, meetings,
                   meetings_before>>
    /\ UNCHANGED clientVars
    /\ UNCHANGED adapterVars

\* chat(): `if tools: params["tools"] = tools`, what the request carries
ChatParams(tools) == IF tools # <<>> THEN "chat_with_tools" ELSE "chat"

\* lines 81-87: the first chat call, with the tool catalog, answered by b
FirstChatWith(b) ==
    /\ pc = "Chat1"
    /\ calls' = Append(calls, ChatParams(available_tools))
    /\ LET c == chat(b)
       IN /\ backend' = b.kind
          /\ IF c.raised
             THEN /\ Uncaught(b.kind) /\ UNCHANGED <<response, messages>>
             ELSE IF c.value = None
             THEN /\ Continue /\ response' = None /\ UNCHANGED messages
             ELSE /\ response' = c.value
                  /\ messages' = add_valid_model_response(c.value, messages)
                  /\ Goto("ExecTools")
    /\ UNCHANGED <<user_input, prompt_name, follow_up, prompt_content,
                   available_tools, tool_results, final_response, final_text,
                   display, turns, meetings,
                   meetings_before>>
    /\ UNCHANGED clientVars
    /\ UNCHANGED adapterVars

FirstChat == \E b \in Backend : FirstChatWith(b)

\* lines 89-95 and 104-105: run the requested tools; with results append one
\* tool message, without results take the text of the first response
ExecuteTools ==
    /\ pc = "ExecTools"
    /\ LET n == Len(FunctionCalls(response))
       IN \E nets \in [1..n -> Net] :
             LET done == execute_tool_requests(session, response, nets, meetings)
             IN /\ tool_results' = done.parts
                /\ meetings' = done.store
                /\ UNCHANGED meetings_before
                /\ calls' = calls \o [i \in 1..done.sent |-> "call_tool"]
                /\ IF done.parts # <<>>
                   THEN /\ messages' = AppendToolResults(messages, done.parts)
                        /\ Goto("Chat2")
                        /\ UNCHANGED final_text
                   ELSE /\ final_text' = text_from_message(response)
                        /\ Goto("Commit")
                        /\ UNCHANGED messages
    /\ UNCHANGED <<user_input, prompt_name, follow_up,
                   prompt_content, available_tools,
                   backend, response, final_response, display, turns>>
    /\ UNCHANGED clientVars
    /\ UNCHANGED adapterVars

\* the second chat call passing the catalog of the turn again
SecondChatTools_Catalog == available_tools

\* line 96: chat(messages=...) with `tools` left at its default None
SecondChatTools == <<>>

\* lines 96-103: the second chat call, without the tool catalog, answered by b
SecondChatWith(b) ==
    /\ pc = "Chat2"
    /\ calls' = Append(calls, ChatParams(SecondChatTools))
    /\ LET c == chat(b)
       IN /\ backend' = b.kind
          /\ IF c.raised
             THEN /\ Uncaught(b.kind)
                  /\ UNCHANGED <<final_response, messages, final_text>>
             ELSE IF c.value = None
             THEN /\ Continue /\ final_response' = None
                  /\ UNCHANGED <<messages, final_text>>
             ELSE /\ final_response' = c.value
                  /\ messages' = add_valid_model_response(c.value, messages)
                  /\ final_text' = text_from_message(c.value)
                  /\ Goto("Commit")
    /\ UNCHANGED <<user_input, prompt_name, follow_up, prompt_content,
                   available_tools, response, tool_results, display, turns,
                   meetings,
                   meetings_before>>
    /\ UNCHANGED clientVars
    /\ UNCHANGED adapterVars

SecondChat == \E b \in Backend : SecondChatWith(b)

\* the notice printed for the empty text only
Displayed_UnlessEmpty(text) == IF text = <<>> THEN "notice" ELSE "text"

\* lines 111-114: `if not final_text.strip()` prints the notice, else the text
Displayed(text) == IF Strip(text) = <<>> THEN "notice" ELSE "text"

\* lines 108-114: the working history becomes the history; print the text
\* or, when it is blank, the notice
Commit ==
    /\ pc = "Commit"
    /\ history' = messages
    /\ display' = Displayed(final_text)
    /\ pc' = "AwaitInput"
    /\ outcome' = "committed"
    /\ UNCHANGED <<messages, user_input, prompt_name, follow_up,
                   prompt_content, available_tools,
                   backend, response, tool_results, final_response, final_text,
                   calls, turns, meetings,
                   meetings_before>>
    /\ UNCHANGED clientVars
    /\ UNCHANGED adapterVars

---------------------------------------------------------------------------
(* main.py: main() and the context-manager protocol of MCPClient *)

\* the parameters MCPClient.__init__ declares
InitParameters == {"command", "args", "env"}

\* the keyword arguments of a construction: the ones main() passes, and the
\* ones of a caller that passes command and args alone
Constructions == {{"command", "args", "sampling_callback"}, {"command", "args"}}

\* lines 55-61: MCPClient(...); an undeclared keyword is a TypeError, raised
\* before anything is spawned; it leaves the empty stack of main() and ends
\* the program
Construct ==
    /\ pc = "main"
    /\ \E keywords \in Constructions :
          IF keywords \subseteq InitParameters
          THEN pc' = "aenter" /\ outcome' = "none"
          ELSE pc' = "exited" /\ outcome' = "TypeError"
    /\ UNCHANGED <<history, messages, user_input, prompt_name, follow_up,
                   prompt_content,
                   available_tools, backend, response, tool_results,
                   final_response, final_text, display, calls, turns, meetings,
                   meetings_before>>
    /\ UNCHANGED clientVars
    /\ UNCHANGED adapterVars

\* stack.enter_async_context(client): __aenter__ awaits connect(); __aexit__
\* is pushed on the stack of main() only after __aenter__ has returned, so a
\* connect() that raises leaves main() with nothing to unwind
Enter ==
    /\ pc = "aenter"
    /\ \E how \in ConnectSteps :
          /\ connect(how)
          /\ IF how = "ok"
             THEN pc' = "start" /\ outcome' = "none"
             ELSE pc' = "exited" /\ outcome' = "connect raised"
    /\ UNCHANGED sent
    /\ UNCHANGED <<history, messages, user_input, prompt_name, follow_up,
                   prompt_content,
                   available_tools, backend, response, tool_results,
                   final_response, final_text, display, calls, turns, meetings,
                   meetings_before>>
    /\ UNCHANGED adapterVars

\* the positions of ChatSession.run
RunPositions ==
    {"start", "AwaitInput", "RunPrompt", "GetTools", "Chat1", "ExecTools",
     "Chat2", "Commit"}

\* Ctrl+C while run() is blocked on input or awaiting a remote call: the
\* interrupt is raised inside main() and leaves the `async with` block
Interrupt ==
    /\ pc \in RunPositions
    /\ pc' = "interrupted"
    /\ outcome' = "KeyboardInterrupt"
    /\ UNCHANGED <<history, messages, user_input, prompt_name, follow_up,
                   prompt_content,
                   available_tools, backend, response, tool_results,
                   final_response, final_text, display, calls, turns, meetings,
                   meetings_before>>
    /\ UNCHANGED clientVars
    /\ UNCHANGED adapterVars

\* leaving `async with AsyncExitStack()` after run() returned or raised: the
\* stack calls the client's __aexit__, which awaits cleanup()
Unwind ==
    /\ pc \in {"done", "crashed", "interrupted"}
    /\ cleanup
    /\ pc' = "exited"
    /\ UNCHANGED <<sent, connects>>
    /\ UNCHANGED <<history, messages, user_input, prompt_name, follow_up,
                   prompt_content,
                   available_tools, backend, response, tool_results,
                   final_response, final_text, display, outcome, calls, turns,
                   meetings,
                   meetings_before>>
    /\ UNCHANGED adapterVars

---------------------------------------------------------------------------
(* Specifications *)

\* the locals of run() and the server store before the first line is read
FreshTurn ==
    /\ messages = <<>>
    /\ user_input = <<>>
    /\ prompt_name = <<>>
    /\ follow_up = <<>>
    /\ prompt_content = <<>>
    /\ available_tools = <<>>
    /\ backend = "none"
    /\ tool_results = <<>>
    /\ final_response = None
    /\ final_text = <<>>
    /\ display = "none"
    /\ outcome = "none"
    /\ calls = <<>>
    /\ turns = 0

\* no schema cleaned and no question asked
IdleAdapters ==
    /\ schema = Number
    /\ cleaned = <<>>
    /\ messages_history = <<>>
    /\ asked = [question |-> <<>>, reply |-> None, text |-> <<>>, raised |-> FALSE]
    /\ asks = 0
    /\ served = NotServed

\* a client that connect() has connected
ConnectedClient ==
    /\ session = "initialized"
    /\ exit_stack = <<"stdio_client", "ClientSession">>
    /\ lifecycle = "Connected"
    /\ sent = 0
    /\ client_result = [op |-> "connect", result |-> "ok"]
    /\ connects = 1

\* ChatSession(llm_service, mcp_client).run() on a connected client
Init ==
    /\ ConnectedClient
    /\ FreshTurn
    /\ IdleAdapters
    /\ pc = "start"
    /\ history = <<>>
    /\ response = None
    /\ meetings = <<>>
    /\ meetings_before = <<>>

Next ==
    \/ ShowTip
    \/ ReadInput
    \/ ResolvePrompt
    \/ GetTools
    \/ FirstChat
    \/ ExecuteTools
    \/ SecondChat
    \/ Commit

Spec == Init /\ [][Next]_vars

\* a new MCPClient driven through its public methods in any order
ClientInit ==
    /\ session = NoSession
    /\ exit_stack = <<>>
    /\ lifecycle = "Unconnected"
    /\ sent = 0
    /\ client_result = [op |-> "none", result |-> "none"]
    /\ connects = 0
    /\ FreshTurn
    /\ IdleAdapters
    /\ pc = "idle"
    /\ history = <<>>
    /\ response = None
    /\ meetings = <<>>
    /\ meetings_before = <<>>

ClientNext ==
    \/ Connect
    \/ Cleanup
    \/ ListTools
    \/ CallTool
    \/ ListPrompts
    \/ RunPrompt

ClientSpec == ClientInit /\ [][ClientNext]_vars

\* the program: main() constructs the client, enters it, runs the session and
\* leaves the `async with` block
MainInit ==
    /\ session = NoSession
    /\ exit_stack = <<>>
    /\ lifecycle = "Unconnected"
    /\ sent = 0
    /\ client_result = [op |-> "none", result |-> "none"]
    /\ connects = 0
    /\ FreshTurn
    /\ IdleAdapters
    /\ pc = "main"
    /\ history = <<>>
    /\ response = None
    /\ meetings = <<>>
    /\ meetings_before = <<>>

MainNext ==
    \/ Construct
    \/ Enter
    \/ ShowTip
    \/ ReadInput
    \/ ResolvePrompt
    \/ GetTools
    \/ FirstChat
    \/ ExecuteTools
    \/ SecondChat
    \/ Commit
    \/ Interrupt
    \/ Unwind

MainSpec == MainInit /\ [][MainNext]_vars

\* the lines of a single turn: plain text, "exit" in three casings, slash
\* commands without a name, without a remainder, with a remainder, with a
\* remainder of two words set apart by runs of spaces
Lines ==
    Inputs \cup
    { <<"e", "x", "i", "t">>,
      <<"E", "X", "I", "T">>,
      <<" ", "h", "i", " ">>,
      <<"/", "k">>,
      <<"/", " ", "k", " ", "P", " ">>,
      <<"/", "k", " ", " ", "P", " ", " ", "Q">> }

\* the responses of a single turn: also text that is blank or empty, one
\* call alone, and text next to a call
Replies ==
    ModelResponses \cup
    { Candidate(<<TextPart(<<" ", "\n">>)>>),
      Candidate(<<TextPart(<<>>)>>),
      Candidate(<<ScheduleQ3>>),
      Candidate(<<TextPart(<<"o", "k">>), AddAlice>>) }

ReplyBackend ==
    [kind : {"response"}, value : Replies]
      \cup [kind : {"InternalServerError", "Exception"}, value : {None}]

\* the first line of a session
ReadFirstLine == turns = 0 /\ \E line \in Lines : ReadLine(line)

FirstChatOfTurn == \E b \in ReplyBackend : FirstChatWith(b)

SecondChatOfTurn == \E b \in ReplyBackend : SecondChatWith(b)

\* the first turn of ChatSession.run on a connected client, over Lines and
\* Replies
TurnInit == Init

TurnNext ==
    \/ ShowTip
    \/ ReadFirstLine
    \/ ResolvePrompt
    \/ GetTools
    \/ FirstChatOfTurn
    \/ ExecuteTools
    \/ SecondChatOfTurn
    \/ Commit

TurnSpec == TurnInit /\ [][TurnNext]_vars

\* the parts a response may carry, for execute_tool_requests on its own
PartChoices ==
    { TextPart(<<"o", "k">>), EmptyPart, ScheduleQ3, AddAlice,
      CallPart("get_meeting_details", <<"Q3">>) }

\* the responses with at most MaxParts parts, and the two without content
BoundedResponses ==
    {None, NoCandidates}
      \cup {Candidate(ps) : ps \in UNION {[1..n -> PartChoices] : n \in 0..MaxParts}}

\* execute_tool_requests applied to any response, on an empty store or on
\* one that holds the meeting already
ExecInit ==
    /\ ConnectedClient
    /\ FreshTurn
    /\ IdleAdapters
    /\ pc = "ExecTools"
    /\ history = <<>>
    /\ response \in BoundedResponses
    /\ meetings \in {<<>>, schedule_meeting(<<>>, "Q3").store}
    /\ meetings_before = meetings

ExecNext == ExecuteTools

ExecSpec == ExecInit /\ [][ExecNext]_vars

\* the scalars and the empty containers of a schema
Leaves == {Str(<<"s", "T">>), Str(<<"S", "T">>), Number, Dict(<<>>), List(<<>>)}

\* the containers built around a value c
Around(c) ==
    { Dict(<<<<"title", c>>>>),
      Dict(<<<<"type", c>>>>),
      Dict(<<<<"properties", c>>>>),
      List(<<c>>),
      List(<<c, c>>) }
      \cup { Dict(<<<<"title", t>>, <<"properties", c>>>>) :
                t \in {Str(<<"s", "T">>), Number} }
      \cup { Dict(<<<<"type", t>>, <<"title", t>>, <<"items", c>>>>) :
                t \in {Str(<<"s", "T">>), Str(<<"S", "T">>)} }

RECURSIVE Schemas(_)
\* the JSON values nested at most d deep
Schemas(d) ==
    IF d = 0 THEN Leaves
    ELSE Leaves \cup UNION {Around(c) : c \in Schemas(d - 1)}

\* clean_schema applied to any value of depth MaxDepth or less, then to its
\* own result
SchemaInit ==
    /\ ConnectedClient
    /\ FreshTurn
    /\ pc = "clean_schema"
    /\ history = <<>>
    /\ response = None
    /\ meetings = <<>>
    /\ meetings_before = <<>>
    /\ schema \in Schemas(MaxDepth)
    /\ cleaned = <<>>
    /\ messages_history = <<>>
    /\ asked = [question |-> <<>>, reply |-> None, text |-> <<>>, raised |-> FALSE]
    /\ asks = 0
    /\ served = NotServed

SchemaNext == CleanSchema

SchemaSpec == SchemaInit /\ [][SchemaNext]_vars

Ask == \E question \in Questions, b \in ReplyBackend : AskWith(question, b)

\* examples/gemini_examples.py: ask() called again and again on one list
\* that starts empty
AskInit ==
    /\ ConnectedClient
    /\ FreshTurn
    /\ IdleAdapters
    /\ pc = "ask"
    /\ history = <<>>
    /\ response = None
    /\ meetings = <<>>
    /\ meetings_before = <<>>

AskNext == Ask

AskSpec == AskInit /\ [][AskNext]_vars

\* mcp_server.py on its own: an empty store and any sequence of invocations
ServerInit ==
    /\ ConnectedClient
    /\ FreshTurn
    /\ IdleAdapters
    /\ pc = "serving"
    /\ history = <<>>
    /\ response = None
    /\ meetings = <<>>
    /\ meetings_before = <<>>

ServerNext == Invoke

ServerSpec == ServerInit /\ [][ServerNext]_vars

\* an exchange committed by an earlier turn
EarlierTurn == <<UserMessage(<<"h", "i">>), ModelMessage(<<"o", "k">>)>>

\* _add_valid_model_response applied to any response, absent ones included,
\* on the working history of a turn: the history and the user's message
ValidateInit ==
    /\ ConnectedClient
    /\ IdleAdapters
    /\ pc = "Validate"
    /\ history \in {<<>>, EarlierTurn}
    /\ user_input = <<"h", "i">>
    /\ messages = add_message_to_history(history, UserMessage(user_input))
    /\ prompt_name = <<>> /\ follow_up = <<>> /\ prompt_content = <<>>
    /\ available_tools = ToolCatalog
    /\ backend = "response"
    /\ tool_results = <<>>
    /\ final_response = None
    /\ final_text = <<>>
    /\ display = "none"
    /\ outcome = "running"
    /\ calls = <<"list_tools", "chat_with_tools">>
    /\ turns = IF history = <<>> THEN 1 ELSE 2
    /\ response \in BoundedResponses
    /\ meetings = <<>>
    /\ meetings_before = <<>>

ValidateNext == AddValidModelResponse

ValidateSpec == ValidateInit /\ [][ValidateNext]_vars

---------------------------------------------------------------------------
(* Properties *)

\* the tool-call requests of a response, in order
Requests(r) ==
    IF r.absent \/ r.candidates = <<>> THEN <<>>
    ELSE SelectSeq(r.candidates[1].content.parts,
                   LAMBDA p : p.kind = "function_call")

IsError(part) == part.response.content.json = "error"

\* the messages the running turn has appended to its working history
TurnMessages == SubSeq(messages, Len(history) + 1, Len(messages))

ToolMessages(ms) == SelectSeq(ms, LAMBDA m : m.role = "tool")

ExitLine == <<"e", "x", "i", "t">>

RemoteFailures ==
    {"TransportError", "ConnectionError", "InternalServerError", "Exception"}

RemoteOps == {"list_tools", "call_tool", "list_prompts", "run_prompt"}

\* the result of the chat call made last in this turn
LastChatResult ==
    IF calls # <<>> /\ calls[Len(calls)] = "chat" THEN final_response ELSE response

\* C1: a step that abandons a turn leaves the committed history as it was,
\* and the committed history changes only in the commit step, which is
\* reached after every chat call of the turn returned a response, and then
\* it becomes the working history.
C1_AbandonKeepsHistory ==
    [][ /\ outcome' = "abandoned" => history' = history
        /\ history' # history =>
              /\ pc = "Commit"
              /\ ~response.absent
              /\ tool_results # <<>> => ~final_response.absent
              /\ history' = messages ]_vars

\* C1 witness: a later turn was abandoned by its second chat call, with a
\* draft longer than the committed history.
C1_Witness ==
    /\ outcome = "abandoned"
    /\ history # <<>>
    /\ tool_results # <<>>
    /\ Len(messages) > Len(history)

\* C2: no failure of a remote call (prompt resolution, tool catalog fetch,
\* tool call, model chat call) ends the session loop.
C2_RemoteFailuresContained ==
    ~(pc = "crashed" /\ outcome \in RemoteFailures)

\* C3: with every remote call succeeding or being handled, the loop ends
\* only on the line "exit" in any letter case; every other line, the bare
\* "/" included, returns to AwaitInput.
C3_OnlyExitEndsLoop ==
    (pc \in {"done", "crashed"} /\ outcome \notin RemoteFailures)
        => Lower(user_input) = ExitLine

\* C4: every model message of the committed history has at least one part
\* that is text or a tool-call request.
C4_NoPoisonedModelMessage ==
    \A i \in DOMAIN history :
        history[i].role = "model"
            => \E k \in DOMAIN history[i].parts :
                  history[i].parts[k].kind \in {"text", "function_call"}

\* C5: the working history given to the first chat call is the committed
\* history followed by exactly one user message.
C5_FirstChatHasUserMessage ==
    pc = "Chat1" =>
        /\ Len(messages) = Len(history) + 1
        /\ SubSeq(messages, 1, Len(history)) = history
        /\ messages[Len(messages)].role = "user"

\* C6: execute_tool_requests returns one result part per tool-call request,
\* the i-th named after the i-th request, whatever calls fail, and every
\* request is sent to the tool server; without requests it returns nothing
\* and sends nothing.
C6_OneResultPerCall ==
    pc \in {"Chat2", "Commit"} =>
        LET requested == Requests(response)
        IN /\ Len(tool_results) = Len(requested)
           /\ \A i \in DOMAIN requested :
                 /\ tool_results[i].kind = "function_response"
                 /\ tool_results[i].name = requested[i].name
           /\ Len(SelectSeq(calls, LAMBDA c : c = "call_tool")) = Len(requested)

\* C6 witness: three requests, the first failed and the third succeeded.
C6_Witness ==
    /\ pc = "Chat2"
    /\ Len(tool_results) = 3
    /\ IsError(tool_results[1])
    /\ ~IsError(tool_results[3])

\* C7: when a tool call of the first response fails, the turn goes on: one
\* tool message with all results is appended, each failed call's payload
\* names its tool, and the next step of the turn is the second chat call.
C7_ToolFailureStillAnswers ==
    [][ /\ (pc = "ExecTools" /\ \E i \in DOMAIN tool_results' : IsError(tool_results'[i]))
            => /\ pc' = "Chat2"
               /\ outcome' = "running"
               /\ messages' = Append(messages, [role |-> "tool", parts |-> tool_results'])
               /\ \A i \in DOMAIN tool_results' :
                     IsError(tool_results'[i]) =>
                        \E k \in DOMAIN tool_results'[i].response.content.items :
                           tool_results'[i].response.content.items[k] = tool_results'[i].name
        /\ pc = "Chat2" => calls' = Append(calls, "chat") ]_vars

\* C7 witness: the second chat call was made after a failed tool call.
C7_Witness ==
    /\ calls # <<>>
    /\ calls[Len(calls)] = "chat"
    /\ \E i \in DOMAIN tool_results : IsError(tool_results[i])

C10_ConnectionErrorUnlessConnected ==
    (lifecycle # "Connected" /\ client_result.op \in RemoteOps)
        => client_result.result = "ConnectionError"

\* the subprocesses the client holds open
Subprocesses == Len(SelectSeq(exit_stack, LAMBDA c : c = "stdio_client"))

\* a step that is a call of connect()
ConnectCalled == connects' = connects + 1

\* C11: the client's life cycle is Unconnected -> Connected -> Closed with
\* Closed terminal: a connect() made while Connected or after cleanup ends
\* with ConnectionError and spawns nothing, and no step takes a Closed client
\* back to Connected.
C11_LifecycleIsOneWay ==
    [][ /\ lifecycle = "Closed" => lifecycle' = "Closed"
        /\ lifecycle = "Connected" => lifecycle' \in {"Connected", "Closed"}
        /\ (ConnectCalled /\ lifecycle # "Unconnected")
              => /\ client_result' = [op |-> "connect", result |-> "ConnectionError"]
                 /\ exit_stack' = exit_stack
                 /\ session' = session ]_vars

\* C13: cleanup() is safe in every state of the client (never connected,
\* after a connect that failed part-way, Connected, already Closed): it ends
\* without an error, nothing stays on the exit stack and the client holds no
\* session afterwards.
C13_CleanupIsSafe ==
    client_result.op = "cleanup"
        => /\ client_result.result = "ok"
           /\ exit_stack = <<>>
           /\ Subprocesses = 0
           /\ session = NoSession
           /\ lifecycle # "Connected"

\* cleanup() after a connect() that spawned the subprocess and then failed
C13_Witness ==
    /\ client_result.op = "cleanup"
    /\ client_result.released = <<"stdio_client">>
    /\ session = NoSession

\* C12: on every path on which the program ends after the tool-server
\* subprocess was spawned ("exit", an uncaught exception in the loop, an
\* interrupt, a connect() inside __aenter__ that fails after the transport
\* was acquired) the subprocess and the session have been released.
C12_ReleasedOnEveryExit ==
    pc = "exited" => /\ exit_stack = <<>>
                     /\ Subprocesses = 0
                     /\ session = NoSession

\* the remote calls of the turn after the template lookup of a slash command
AfterPrompt ==
    IF calls # <<>> /\ calls[1] = "get_prompt" THEN Tail(calls) ELSE calls

\* C14: the remote calls of a turn come in a fixed order and number: the
\* catalog is fetched once, in the turn itself, before the first chat call,
\* which carries it; tools are invoked only after the first chat call and
\* before the second; there are at most two chat calls, the second only with
\* a tool result at hand and without the catalog.
C14_CallOrder ==
    turns >= 1 =>
        LET c == AfterPrompt
        IN /\ \A i \in DOMAIN c :
                 c[i] \in {"list_tools", "chat_with_tools", "call_tool", "chat"}
           /\ c # <<>> => c[1] = "list_tools"
           /\ \A i \in 2..Len(c) : c[i] # "list_tools"
           /\ Len(c) >= 2 => c[2] = "chat_with_tools"
           /\ \A i \in 3..Len(c) :
                 c[i] = "call_tool" \/ (c[i] = "chat" /\ i = Len(c))
           /\ (\E i \in DOMAIN c : c[i] = "chat") => tool_results # <<>>
           /\ pc \in {"Chat1", "ExecTools", "Chat2", "Commit"}
                 => c # <<>> /\ available_tools = ToolCatalog
           /\ pc \in {"ExecTools", "Chat2", "Commit"} => Len(c) >= 2

\* a second turn with a template lookup, the catalog, two tool calls and both
\* chat calls
C14_Witness ==
    /\ turns = 2
    /\ calls = <<"get_prompt", "list_tools", "chat_with_tools", "call_tool",
                 "call_tool", "chat">>

\* the word "exit" in any mix of upper and lower case
AnyCaseExit(line) ==
    /\ Len(line) = Len(ExitLine)
    /\ line[1] \in {"e", "E"}
    /\ line[2] \in {"x", "X"}
    /\ line[3] \in {"i", "I"}
    /\ line[4] \in {"t", "T"}

\* C15: when the line read is "exit" in any letter case the session ends, the
\* committed history stays as it was, and no request goes to the tool server
\* or to the model for that line.
C15_ExitEndsSession ==
    [][ (pc = "AwaitInput" /\ turns' = turns + 1 /\ AnyCaseExit(user_input'))
            => /\ pc' = "done"
               /\ outcome' = "exit"
               /\ history' = history
               /\ calls' = <<>>
               /\ sent' = sent
               /\ meetings' = meetings ]_vars

\* "Exit" typed after a committed turn
C15_Witness ==
    /\ pc = "done"
    /\ user_input = <<"E", "x", "i", "t">>
    /\ history # <<>>
    /\ calls = <<>>

\* text without a character that is not whitespace
Blank(text) == \A i \in DOMAIN text : text[i] \in Whitespace

\* C16: a turn whose chat calls all returned a response is committed, also
\* when its final text is empty or blank and when a response was discarded as
\* invalid: the history then equals the working history of the turn, and a
\* blank final text shows the notice in place of the text.
C16_BlankAnswerStillCommits ==
    (/\ pc = "AwaitInput"
     /\ turns >= 1
     /\ ~response.absent
     /\ tool_results # <<>> => ~final_response.absent)
        => /\ outcome = "committed"
           /\ history = messages
           /\ display = IF Blank(final_text) THEN "notice" ELSE "text"

\* a committed turn whose second response was blank text
C16_Witness ==
    /\ outcome = "committed"
    /\ tool_results # <<>>
    /\ final_text # <<>>
    /\ Blank(final_text)
    /\ display = "notice"
    /\ history = messages

RECURSIVE SkipWord(_)
\* a text without its first word
SkipWord(s) ==
    IF s = <<>> \/ Head(s) \in Whitespace THEN s ELSE SkipWord(Tail(s))

\* what the user typed after the name of a slash command
RawRemainder(line) == LStrip(SkipWord(Strip(Tail(line))))

UserEntries(ms) == Len(SelectSeq(ms, LAMBDA m : m.role = "user"))

\* in a turn whose template resolved, the working history is the history and
\* one user message: the template, a blank line and `remainder`, trimmed
SlashTurnSends(remainder) ==
    (/\ prompt_content # <<>>
     /\ pc \in {"GetTools", "Chat1", "ExecTools", "Chat2", "Commit"})
        => /\ Len(messages) > Len(history)
           /\ SubSeq(messages, 1, Len(history)) = history
           /\ messages[Len(history) + 1] =
                 UserMessage(Strip(prompt_content \o <<"\n", "\n">> \o remainder))
           /\ UserEntries(messages) = UserEntries(history) + 1

\* C17 as stated: for "/<name> <remainder>" whose template resolves to text
\* T, the message sent is T, a blank line and the remainder as typed,
\* trimmed (T alone when there is no remainder), and it is the one user
\* entry the turn appends.
C17_TemplateThenRemainder == SlashTurnSends(RawRemainder(user_input))

\* C17: for "/<name> <remainder>" whose template resolves to text T, the
\* message sent is T, a blank line and the words of the remainder joined by
\* single spaces, trimmed (T alone when there is no remainder), and it is the
\* one user entry the turn appends.
C17_TemplateThenWords ==
    SlashTurnSends(Join(<<" ">>, Split(RawRemainder(user_input))))

\* "/k  P  Q" sent as the template (which ends with a newline), a blank line
\* and "P Q", trimmed at both ends
C17_Witness ==
    /\ pc = "Chat1"
    /\ user_input = <<"/", "k", " ", " ", "P", " ", " ", "Q">>
    /\ prompt_content = TemplateText
    /\ messages = <<UserMessage(<<"T", "\n", "\n", "\n", "P", " ", "Q">>)>>

\* a response whose content is absent, without a candidate or without parts
Discarded(r) ==
    \/ r.absent
    \/ r.candidates = <<>>
    \/ r.candidates[1].content.parts = <<>>

\* C18: _add_valid_model_response leaves the working history as it is,
\* length and contents, for a response that is absent, has no candidate or
\* has no parts, and appends exactly one message, the content of the
\* response, for a response with at least one part.
C18_InvalidResponseAppendsNothing ==
    pc = "Validated" =>
        LET before == Append(history, UserMessage(user_input))
        IN IF Discarded(response)
           THEN messages = before
           ELSE /\ Len(messages) = Len(before) + 1
                /\ SubSeq(messages, 1, Len(before)) = before
                /\ messages[Len(messages)] = response.candidates[1].content

\* the call made with a part-less response on a history of three messages
C18_Witness ==
    /\ pc = "Validated"
    /\ response = Candidate(<<>>)
    /\ history = EarlierTurn
    /\ Len(messages) = Len(history) + 1

RECURSIVE TitleFree(_)
\* no dict of the value, at any depth, has the key "title"
TitleFree(v) ==
    IF v.tag = "dict"
    THEN \A i \in DOMAIN v.val :
            v.val[i][1] # "title" /\ TitleFree(v.val[i][2])
    ELSE IF v.tag = "list"
    THEN \A i \in DOMAIN v.val : TitleFree(v.val[i])
    ELSE TRUE

RECURSIVE TypesUpper(_)
\* every string held under a key "type" has no lower-case letter
TypesUpper(v) ==
    IF v.tag = "dict"
    THEN \A i \in DOMAIN v.val :
            IF v.val[i][1] = "type" /\ v.val[i][2].tag = "str"
            THEN \A j \in DOMAIN v.val[i][2].val :
                    v.val[i][2].val[j] \notin {"s", "t"}
            ELSE TypesUpper(v.val[i][2])
    ELSE IF v.tag = "list"
    THEN \A i \in DOMAIN v.val : TypesUpper(v.val[i])
    ELSE TRUE

\* C19: clean_schema is idempotent and leaves no title: cleaning a cleaned
\* value gives the same value, no dict of a cleaned value has a "title" key
\* at any depth, and every string under a "type" key is upper-cased.
C19_CleanSchemaIdempotent ==
    \A i \in DOMAIN cleaned :
        /\ cleaned[i] = cleaned[1]
        /\ TitleFree(cleaned[i])
        /\ TypesUpper(cleaned[i])

\* a list holding a dict whose "items" schema has a title and a lower-case
\* type, cleaned twice
C19_Witness ==
    /\ Len(cleaned) = 2
    /\ schema = List(<<Dict(<<<<"type", Str(<<"s", "T">>)>>,
                             <<"title", Str(<<"s", "T">>)>>,
                             <<"items", Dict(<<<<"title", Number>>>>)>>>>)>>)
    /\ cleaned[2] = List(<<Dict(<<<<"type", Str(<<"S", "T">>)>>,
                                 <<"items", Dict(<<>>)>>>>)>>)

\* user, model, user, model, ...
Alternates(ms) ==
    \A i \in DOMAIN ms : ms[i].role = IF i % 2 = 1 THEN "user" ELSE "model"

\* C20: ask() keeps the list consistent: when chat returns nothing or the
\* extracted text is empty the list after the call is the list before it;
\* otherwise it has grown by exactly the user's question and a model message
\* with the returned text.  A list that started empty therefore alternates
\* user, model and has even length after any number of calls.
C20_AskKeepsPairs ==
    [][ asks' = asks + 1 =>
          /\ IF asked'.reply = None \/ asked'.text = <<>>
             THEN messages_history' = messages_history
             ELSE messages_history' =
                     messages_history \o <<UserMessage(asked'.question),
                                            ModelMessage(asked'.text)>>
          /\ ~asked'.raised
          /\ Alternates(messages_history')
          /\ Len(messages_history') % 2 = 0 ]_vars

\* two answered questions, then one that the backend failed
C20_Witness ==
    /\ asks = MaxAsks
    /\ Len(messages_history) = 4
    /\ asked.reply = None
    /\ asked.text = <<>>

\* a step in which the server ran one invocation
Served == served'.n = served.n + 1

\* the invocation's precondition on the store m does not hold
PreconditionFails(m, name, args) ==
    \/ name = "schedule_meeting" /\ args[1] \in DOMAIN m
    \/ /\ name \in {"add_attendee", "add_action_item", "get_meeting_details"}
       /\ args[1] \notin DOMAIN m

\* C21: a meeting-tool invocation whose precondition fails (schedule_meeting
\* on a topic that exists; add_attendee, add_action_item, get_meeting_details
\* on a topic that does not) returns a text that starts with "Error:" as its
\* ordinary result and leaves the store exactly as it was; schedule_meeting
\* never resets an existing meeting.
C21_FailedToolKeepsStore ==
    [][ (Served /\ PreconditionFails(meetings, served'.name, served'.args))
            => /\ served'.text # <<>>
               /\ served'.text[1] = "Error:"
               /\ meetings' = meetings ]_vars

\* schedule_meeting refused for a meeting that has an attendee and an item
C21_Witness ==
    /\ served.name = "schedule_meeting"
    /\ served.args = <<"Q3">>
    /\ served.text[1] = "Error:"
    /\ "Q3" \in DOMAIN meetings
    /\ meetings["Q3"].attendees = <<"Alice">>
    /\ meetings["Q3"].action_items = <<"budget">>

\* xs is a prefix of ys
IsPrefix(xs, ys) == Len(xs) <= Len(ys) /\ SubSeq(ys, 1, Len(xs)) = xs

\* the meetings other than `topic` are the same in both stores
SameElsewhere(m1, m2, topic) ==
    /\ DOMAIN m1 = DOMAIN m2
    /\ \A t \in DOMAIN m1 \ {topic} : m1[t] = m2[t]

\* C27: the store only grows: a scheduled topic is never removed, every
\* meeting has an attendees list and an action_items list, each list keeps
\* its earlier value as a prefix; add_attendee / add_action_item on an
\* existing topic append one element to that one list of that topic and
\* change nothing else; get_meeting_details and list_all_meetings change
\* nothing.
C27_StoreOnlyGrows ==
    [][ Served =>
          /\ DOMAIN meetings \subseteq DOMAIN meetings'
          /\ \A t \in DOMAIN meetings' :
                DOMAIN meetings'[t] = {"attendees", "action_items"}
          /\ \A t \in DOMAIN meetings :
                /\ IsPrefix(meetings[t].attendees, meetings'[t].attendees)
                /\ IsPrefix(meetings[t].action_items, meetings'[t].action_items)
          /\ (served'.name = "add_attendee" /\ served'.args[1] \in DOMAIN meetings)
                => /\ SameElsewhere(meetings, meetings', served'.args[1])
                   /\ meetings'[served'.args[1]].attendees =
                         Append(meetings[served'.args[1]].attendees, served'.args[2])
                   /\ meetings'[served'.args[1]].action_items =
                         meetings[served'.args[1]].action_items
          /\ (served'.name = "add_action_item" /\ served'.args[1] \in DOMAIN meetings)
                => /\ SameElsewhere(meetings, meetings', served'.args[1])
                   /\ meetings'[served'.args[1]].action_items =
                         Append(meetings[served'.args[1]].action_items, served'.args[2])
                   /\ meetings'[served'.args[1]].attendees =
                         meetings[served'.args[1]].attendees
          /\ served'.name \in {"get_meeting_details", "list_all_meetings"}
                => meetings' = meetings ]_vars

\* list_all_meetings on a store of two meetings, one with two attendees
C27_Witness ==
    /\ served.name = "list_all_meetings"
    /\ DOMAIN meetings = {"Q3", "Q4"}
    /\ served.text[1] = {"Q3", "Q4"}
    /\ meetings["Q3"].attendees = <<"Alice", "Bob">>

\* the roles of the messages of a list, in order
Roles(ms) == [i \in DOMAIN ms |-> ms[i].role]

\* the order in which one turn appends its messages
TurnOrder == <<"user", "model", "tool", "model">>

\* the messages of ys after its first Len(xs)
Added(xs, ys) == SubSeq(ys, Len(xs) + 1, Len(ys))

\* C22: the committed history is prefix-monotone: in every step the history
\* before it is a prefix of the history after it, so no message is ever
\* removed, reordered or changed; and what one step (the commit of a turn)
\* adds is at most four messages whose roles are a run of user, model, tool,
\* model in that order.
C22_HistoryPrefixMonotone ==
    [][ /\ IsPrefix(history, history')
        /\ Len(history') <= Len(history) + 4
        /\ \E i \in 1..5, j \in 0..4 :
              Roles(Added(history, history')) = SubSeq(TurnOrder, i, j) ]_vars

\* the second turn has committed four messages on top of the four of the
\* first turn
C22_Witness ==
    /\ turns = 2
    /\ outcome = "committed"
    /\ Roles(history) = TurnOrder \o TurnOrder

\* the tool-call requests among the parts of a message, in order
CallsOf(msg) == SelectSeq(msg.parts, LAMBDA p : p.kind = "function_call")

\* the parts of the tool message answer the requests, one each, in order
Answers(tool, requests) ==
    /\ Len(tool.parts) = Len(requests)
    /\ \A k \in DOMAIN requests :
          /\ tool.parts[k].kind = "function_response"
          /\ tool.parts[k].name = requests[k].name

\* C23: in every committed history each tool-role message comes directly
\* after a model-role message that holds at least one tool-call request, and
\* the tool message has one result part per request of that model message, in
\* the order of the requests.
C23_ToolMessageAnswersModel ==
    \A i \in DOMAIN history :
        history[i].role = "tool" =>
            /\ i > 1
            /\ history[i - 1].role = "model"
            /\ CallsOf(history[i - 1]) # <<>>
            /\ Answers(history[i], CallsOf(history[i - 1]))

\* a committed tool message with two results, the first for schedule_meeting
\* and the second for add_attendee, after the model message that asked for
\* them in that order
C23_Witness ==
    /\ outcome = "committed"
    /\ Len(history) >= 3
    /\ history[3].role = "tool"
    /\ Len(history[3].parts) = 2
    /\ history[3].parts[1].name = "schedule_meeting"
    /\ history[3].parts[2].name = "add_attendee"
    /\ CallsOf(history[2]) = <<ScheduleQ3, AddAlice>>

\* C24: in every committed history each model-role message that holds
\* tool-call requests is directly followed by a tool-role message answering
\* them, the response of the second chat call included: requests in it are
\* never committed without results.
C24_RequestsAreAnswered ==
    \A i \in DOMAIN history :
        (history[i].role = "model" /\ CallsOf(history[i]) # <<>>) =>
            /\ i < Len(history)
            /\ history[i + 1].role = "tool"
            /\ Answers(history[i + 1], CallsOf(history[i]))

\* C25: in every committed history a user-role message is never directly
\* followed by a tool-role message; a turn that appended a user message and
\* whose first response has at least one part commits, directly after that
\* user message, the model message of that response; a turn whose first
\* response is present but has no candidate or no parts commits the user
\* message alone.
C25_UserThenModelUnlessDiscarded ==
    /\ \A i \in DOMAIN history :
          (history[i].role = "user" /\ i < Len(history)) =>
              history[i + 1].role \in {"model", "user"}
    /\ (pc = "Commit" /\ TurnMessages # <<>> /\ TurnMessages[1].role = "user") =>
          IF Discarded(response)
          THEN Len(TurnMessages) = 1
          ELSE /\ Len(TurnMessages) >= 2
               /\ TurnMessages[2] = response.candidates[1].content

\* a second turn about to commit its user message alone, its first response
\* being present and discarded, on top of a first turn that did the same
C25_Witness ==
    /\ pc = "Commit"
    /\ Roles(history) = <<"user">>
    /\ ~response.absent
    /\ Discarded(response)
    /\ Roles(messages) = <<"user", "user">>

\* C25 as stated: each committed user-role message is directly followed by a
\* model-role message, so two consecutive user messages never occur.
C25_UserThenModel ==
    \A i \in DOMAIN history :
        history[i].role = "user" =>
            /\ i < Len(history)
            /\ history[i + 1].role = "model"

\* C26: an abandoned turn is atomic across both stores: whenever a turn is
\* abandoned, also when the second chat call returns absent after tool calls
\* ran, the committed history and the meeting store of the tool server both
\* equal their values before the turn.
C26_AbandonedTurnIsAtomic ==
    [][ (outcome' = "abandoned" /\ pc' = "AwaitInput" /\ pc # "AwaitInput") =>
            /\ history' = history
            /\ meetings' = meetings_before ]_vars

====
